---- MODULE Spec2Model ----
(***************************************************************************)
(* The streaming response pipeline of the Cline CLI: the provider stream   *)
(* decoders (SimpleApiHandler.ts), the dispatcher buildSimpleApiHandler,    *)
(* and the task history kept by CliController / CliContext.                 *)
(*                                                                          *)
(* A response body is a sequence of byte tokens.  "NL" is the newline      *)
(* byte, "U1" "U2" are the lead and continuation byte of one two-byte      *)
(* UTF-8 character, and the other tokens stand for the fixed runs of ASCII *)
(* bytes named beside them below.  Text (after TextDecoder) is a sequence  *)
(* of character tokens: the same tokens, with "uu" for the decoded         *)
(* two-byte character and "R" for U+FFFD.                                  *)
(***************************************************************************)
EXTENDS Integers, Sequences, FiniteSets, TLC

\* Largest number of bytes of a response body.
MaxBodyLen == 14

\* Largest number of executeTask calls on one controller.
MaxTurns == 2

\* Largest number of faults in one run: failed reads and writes of a file,
\* and faults thrown inside executeTask.
MaxFaults == 1

(***************************************************************************)
(* Tokens                                                                  *)
(***************************************************************************)
\* "P"    data:<space>                       the SSE field prefix, 6 chars
\* "DONE" [DONE]
\* "AO"   {"type":"content_block_delta","delta":{"text":"
\* "ZO"   {"type":"ping","delta":{"text":"
\* "OO"   {"choices":[{"delta":{"content":"
\* "MO"   {"message":{"content":"
\* "C"    the closing of the string and of the objects opened by ?O
\* "CD"   the same closing with ,"done":true added to the top-level object
\* "DN"   {"done":true}
\* "OBJ"  {}
\* "NUL"  null
\* "Hel" "lo"  runs of letters;  "SP" a space;  "EN" the JSON escape \n
OpenTokens == {"AO", "ZO", "OO", "MO"}
CloseTokens == {"C", "CD"}
StringChars == {"Hel", "lo", "SP", "uu", "R", "EN"}
JsonWs == {"SP"}

\* config.apiProvider left unset (the JS value undefined).
Unset == "undefined"
KnownProviders == {"anthropic", "openai-native", "siliconflow", "ollama"}
ProviderIds == KnownProviders \cup {"gemini", "openrouter", "", Unset}
UserMessages == {"m1", "m2"}
\* response.status of a response with !response.ok, and of one with response.ok
ErrorStatuses == {"404", "500"}
OkStatus == "200"

VARIABLES
    apiProvider,   \* config.apiProvider of the ApiConfiguration
    userMessage,   \* the userMessage argument of createMessage
    handler,       \* class of the SimpleApiHandler built, "" before
    pc,            \* position of the createMessage generator
    status,        \* response.status, "" before the response
    body,          \* bytes of the response body (all that will be sent)
    pos,           \* number of bytes of body the reader has delivered
    pending,       \* bytes held back by TextDecoder (stream: true)
    buffer,        \* the local `buffer`
    lines,         \* lines of the running for loop not yet finished
    out,           \* chunks yielded so far, in order
    requests,      \* number of fetch calls issued
    netError,      \* TRUE once fetch or reader.read() has rejected
    tpc,           \* position of CliController.executeTask
    task,          \* the description argument of executeTask
    response,      \* the local `response` of executeTask
    relayed,       \* chunks written to stdout / stderr, in order
    historyFile,   \* task-history.json: [kind, items]
    history,       \* the local `history` of saveToHistory
    historyItem,   \* the local `historyItem` of saveToHistory
    now,           \* the clock read by Date.now()
    turns,         \* number of executeTask calls that have settled
    log,           \* every history item built so far, newest first
    ioFaults,      \* number of failed reads and writes of the history file
    warnings,      \* number of console.warn calls
    completed,     \* number of 'completed' events emitted
    result,        \* how the last executeTask call settled
    rejected,      \* number of executeTask calls that rejected
    mem,           \* _globalState, _workspaceState, _secretStorage of CliContext
    disk,          \* state.json (global), state.json (workspace), secrets.json
    loadPc,        \* the read loadState is waiting for (1..3), 4 when it is over
    calls,         \* the update / store / delete / dispose calls started, in order
    options,       \* the command-line options of `cline task` / `cline chat`
    configFile,    \* what JSON.parse makes of the file named by --config
    storedConfig,  \* what JSON.parse makes of api-config.json
    apiConfig,     \* what loadApiConfiguration returned
    fields,        \* the private fields of the handler built
    headers,       \* the credential header of the request the handler issued
    cfgPc,         \* position of the command: "load", "ready", "built", "sent", "prompt", "saved"
    chatPc,        \* InteractiveChat: "off" (none), "on", "exiting", "closed"
    isWaitingForResponse,  \* the flag of InteractiveChat
    promptShown,   \* rl.prompt() was called since the last line came in
    waitMsgs,      \* number of lines answered with "Please wait ..."
    linesIn,       \* number of 'line' events handled
    overlap        \* TRUE once sendMessage was called with a call still unsettled

dvars == <<apiProvider, userMessage, handler, pc, status, body, pos, pending,
           buffer, lines, out, requests, netError>>
tvars == <<tpc, task, response, relayed, historyFile, history, historyItem, now,
           turns, log, ioFaults, warnings, completed, result>>
svars == <<mem, disk, loadPc, calls>>
cvars == <<options, configFile, storedConfig, apiConfig, fields, headers, cfgPc>>
hvars == <<chatPc, isWaitingForResponse, promptShown, waitMsgs, linesIn, overlap>>
xvars == <<svars, rejected, cvars, hvars>>
vars == <<dvars, tvars, xvars>>

(***************************************************************************)
(* TextDecoder.decode(value, {stream: true})                                *)
(***************************************************************************)
RECURSIVE Utf8Decode(_, _, _)
Utf8Decode(pend, bytes, acc) ==
    IF bytes = <<>> THEN [text |-> acc, pending |-> pend]
    ELSE LET b == Head(bytes) IN
         IF pend = <<>>
         THEN IF b = "U1" THEN Utf8Decode(<<"U1">>, Tail(bytes), acc)
              ELSE IF b = "U2" THEN Utf8Decode(<<>>, Tail(bytes), Append(acc, "R"))
              ELSE Utf8Decode(<<>>, Tail(bytes), Append(acc, b))
         ELSE IF b = "U2" THEN Utf8Decode(<<>>, Tail(bytes), Append(acc, "uu"))
              ELSE Utf8Decode(<<>>, bytes, Append(acc, "R"))

\* Mutant: decode(value) without the stream option.
DecodeNoStream(pend, value) ==
    LET dec == Utf8Decode(<<>>, value, <<>>)
    IN  [text |-> dec.text \o (IF dec.pending # <<>> THEN <<"R">> ELSE <<>>),
         pending |-> <<>>]

\* decoder.decode(value, { stream: true }) with `pend` held from earlier calls.
DecodeStream(pend, value) == Utf8Decode(pend, value, <<>>)

(***************************************************************************)
(* String.prototype.split("\n"), lines.pop() || ""                          *)
(***************************************************************************)
RECURSIVE SplitNL(_, _, _)
SplitNL(s, cur, acc) ==
    IF s = <<>> THEN Append(acc, cur)
    ELSE IF Head(s) = "NL" THEN SplitNL(Tail(s), <<>>, Append(acc, cur))
    ELSE SplitNL(Tail(s), Append(cur, Head(s)), acc)

\* buffer.split("\n")
Split(s) == SplitNL(s, <<>>, <<>>)

\* Mutant: the last part is not popped.
CompleteLinesUnpopped(parts) == parts

\* const lines = buffer.split("\n") after lines.pop()
CompleteLines(parts) == SubSeq(parts, 1, Len(parts) - 1)

\* Mutant: the text after the last newline is dropped.
RetainedBufferCleared(parts) == <<>>

\* buffer = lines.pop() || ""
RetainedBuffer(parts) == parts[Len(parts)]

(***************************************************************************)
(* String.prototype.trim, JSON.parse                                        *)
(***************************************************************************)
RECURSIVE TrimStart(_)
TrimStart(s) == IF s # <<>> /\ Head(s) \in JsonWs THEN TrimStart(Tail(s)) ELSE s

RECURSIVE TrimEnd(_)
TrimEnd(s) ==
    IF s # <<>> /\ s[Len(s)] \in JsonWs THEN TrimEnd(SubSeq(s, 1, Len(s) - 1)) ELSE s

Trim(s) == TrimEnd(TrimStart(s))

\* A JSON string escape becomes the character it denotes.
Unescape(c) == IF c = "EN" THEN "NL" ELSE c

\* The value fields the decoders look at.  ok = FALSE: JSON.parse throws.
\* path says where the string `text` sits: "delta" (delta.text), "choices"
\* (choices[0].delta.content), "message" (message.content), "none".
JsonFail == [ok |-> FALSE, null |-> FALSE, type |-> "", path |-> "none",
             text |-> <<>>, done |-> FALSE]

JsonParse(s) ==
    LET t == Trim(s)
        n == Len(t)
    IN  IF n = 1 /\ t[1] \in {"DN", "OBJ", "NUL"}
        THEN [ok |-> TRUE, null |-> (t[1] = "NUL"), type |-> "", path |-> "none",
              text |-> <<>>, done |-> (t[1] = "DN")]
        ELSE IF /\ n >= 2
                /\ t[1] \in OpenTokens
                /\ t[n] \in CloseTokens
                /\ \A i \in 2..(n - 1) : t[i] \in StringChars
        THEN [ok |-> TRUE, null |-> FALSE,
              type |-> (IF t[1] = "AO" THEN "content_block_delta"
                        ELSE IF t[1] = "ZO" THEN "ping" ELSE ""),
              path |-> (IF t[1] \in {"AO", "ZO"} THEN "delta"
                        ELSE IF t[1] = "OO" THEN "choices" ELSE "message"),
              text |-> SubSeq([i \in 1..n |-> Unescape(t[i])], 2, n - 1),
              done |-> (t[n] = "CD")]
        ELSE JsonFail

(***************************************************************************)
(* What one iteration of `for (const line of lines)` does.                 *)
(* kind: "skip" (nothing), "return" (the generator returns), "yield"       *)
(* (one text chunk, then the loop goes on), "yield_return" (one text       *)
(* chunk, then the generator returns).                                     *)
(***************************************************************************)
Skip == [kind |-> "skip", text |-> <<>>]

ReturnIgnored == Skip

\* if (data === "[DONE]") return;  if (parsed.done) return
Return == [kind |-> "return", text |-> <<>>]

ParseErrorAborts == Return

\* catch (e) { /* Ignore parsing errors */ }
OnParseError == Skip

Yield(t) == [kind |-> "yield", text |-> t]

\* parsed.type === "content_block_delta" && parsed.delta?.text
AnthropicDelta(parsed) ==
    IF parsed.type = "content_block_delta" /\ parsed.path = "delta" /\ parsed.text # <<>>
    THEN Yield(parsed.text) ELSE Skip

\* Mutant: the delta is trimmed before it is yielded.
OpenAIDeltaTrimmed(parsed) ==
    IF parsed.path = "choices" /\ parsed.text # <<>>
    THEN [kind |-> "yield", text |-> Trim(parsed.text)] ELSE Skip

\* parsed.choices?.[0]?.delta?.content
OpenAIDelta(parsed) ==
    IF parsed.path = "choices" /\ parsed.text # <<>> THEN Yield(parsed.text) ELSE Skip

\* The body of the for loop of the three SSE handlers, for one line.
SseLine(h, line) ==
    IF line # <<>> /\ Head(line) = "P"
    THEN LET data == Tail(line) IN
         IF data = <<"DONE">> THEN Return
         ELSE LET parsed == JsonParse(data) IN
              IF ~parsed.ok \/ parsed.null THEN OnParseError
              ELSE IF h = "AnthropicSimpleHandler" THEN AnthropicDelta(parsed)
              ELSE OpenAIDelta(parsed)
    ELSE Skip

\* The body of the for loop of OllamaSimpleHandler, for one line.
OllamaLine(line) ==
    IF Trim(line) # <<>>
    THEN LET parsed == JsonParse(line) IN
         IF ~parsed.ok \/ parsed.null THEN OnParseError
         ELSE IF parsed.path = "message" /\ parsed.text # <<>>
              THEN [kind |-> (IF parsed.done THEN "yield_return" ELSE "yield"),
                    text |-> parsed.text]
              ELSE IF parsed.done THEN Return ELSE Skip
    ELSE Skip

LineEffect(h, line) ==
    IF h = "OllamaSimpleHandler" THEN OllamaLine(line) ELSE SseLine(h, line)

(***************************************************************************)
(* buildSimpleApiHandler                                                    *)
(***************************************************************************)
\* Mutant: the default branch builds a network handler.
buildDefaultAnthropic(p) ==
    CASE p = "openai-native" -> "OpenAISimpleHandler"
      [] p = "siliconflow" -> "SiliconFlowSimpleHandler"
      [] p = "ollama" -> "OllamaSimpleHandler"
      [] OTHER -> "AnthropicSimpleHandler"

buildSimpleApiHandler(p) ==
    CASE p = "anthropic" -> "AnthropicSimpleHandler"
      [] p = "openai-native" -> "OpenAISimpleHandler"
      [] p = "siliconflow" -> "SiliconFlowSimpleHandler"
      [] p = "ollama" -> "OllamaSimpleHandler"
      [] OTHER -> "MockSimpleHandler"

NetworkHandlers == {"AnthropicSimpleHandler", "OpenAISimpleHandler",
                    "SiliconFlowSimpleHandler", "OllamaSimpleHandler"}

(***************************************************************************)
(* Chunks                                                                   *)
(***************************************************************************)
TextChunk(t) == [type |-> "text", text |-> t]

\* yield { type: "error", text: `Error: ${error}` }
ErrorChunk(cause) == [type |-> "error", text |-> <<"Error: ">> \o cause]

\* new Error(`API request failed: ${response.status} ${response.statusText}`)
StatusError(st) == <<"Error: API request failed: ", st>>
NoBodyError == <<"Error: No response body">>
NetworkError == <<"TypeError: fetch failed">>

\* `${this.config.apiProvider}` and this.config.apiProvider || "none"
MockText(p, msg) ==
    <<"This is a mock response for provider ", p, "Your request: ", msg,
      "Current provider: ", (IF p \in {Unset, ""} THEN "none" ELSE p)>>

(***************************************************************************)
(* Response bodies                                                          *)
(***************************************************************************)
OpenOf(h) ==
    IF h = "AnthropicSimpleHandler" THEN "AO"
    ELSE IF h = "OllamaSimpleHandler" THEN "MO" ELSE "OO"

\* Frames every stream is mostly made of: two text deltas and the end
\* sentinel (for Ollama the sentinel frame carries text too).
CoreFrames(h) ==
    IF h = "OllamaSimpleHandler"
    THEN {<<"MO", "Hel", "C">>, <<"MO", "lo", "CD">>, <<"MO", "U1", "U2", "C">>}
    ELSE {<<"P", OpenOf(h), "Hel", "C">>, <<"P", OpenOf(h), "U1", "U2", "C">>,
          <<"P", "DONE">>}

\* Less usual lines; a body holds at most one of them.
OddFrames(h) ==
    IF h = "OllamaSimpleHandler"
    THEN {<<"DN">>, <<"MO">>, <<"OBJ">>, <<"MO", "C">>, <<"SP">>, <<>>, <<"NUL">>,
          <<"MO", "CD">>, <<"MO", "EN", "SP", "C">>,
          <<"SP", "MO", "Hel", "C", "SP">>, <<"P", "MO", "Hel", "C">>}
    ELSE {<<"P", OpenOf(h)>>, <<"P", "OBJ">>, <<"P", OpenOf(h), "C">>, <<>>,
          <<OpenOf(h), "Hel", "C">>, <<"P", "NUL">>, <<"P", "ZO", "Hel", "C">>,
          <<"P", "SP", "DONE">>, <<"P", OpenOf(h), "EN", "SP", "C">>}

\* An unterminated last line: a text frame or the sentinel frame.
TailFrames(h) ==
    IF h = "OllamaSimpleHandler"
    THEN {<<"MO", "Hel", "C">>, <<"MO", "lo", "CD">>}
    ELSE {<<"P", OpenOf(h), "Hel", "C">>, <<"P", "DONE">>}

\* Bodies of newline-terminated frames, at most MaxBodyLen bytes long.
GrowBodies(h, S) ==
    LET more == {[b |-> x.b \o f \o <<"NL">>, odd |-> x.odd] :
                     x \in S, f \in CoreFrames(h)}
                \cup {[b |-> x.b \o f \o <<"NL">>, odd |-> TRUE] :
                     x \in {y \in S : ~y.odd}, f \in OddFrames(h)}
    IN  S \cup {x \in more : Len(x.b) <= MaxBodyLen}

RECURSIVE CloseBodies(_, _)
CloseBodies(h, S) ==
    LET T == GrowBodies(h, S) IN IF T = S THEN S ELSE CloseBodies(h, T)

Bodies(h) ==
    LET whole == CloseBodies(h, {[b |-> <<>>, odd |-> FALSE]})
        cut == {x.b \o t : x \in {y \in whole : ~y.odd}, t \in TailFrames(h)}
    IN  {x.b : x \in whole} \cup {b \in cut : Len(b) <= MaxBodyLen}

(***************************************************************************)
(* createMessage, step by step.  pc:                                        *)
(*   "build"  before buildSimpleApiHandler                                  *)
(*   "start"  generator created, not started                                *)
(*   "read"   at `await reader.read()`                                      *)
(*   "loop"   in the for loop, Head(lines) is the line to process           *)
(*            (lines holds the lines whose iteration has not finished)      *)
(*   "yield"  suspended at a yield in the for loop for Head(lines)          *)
(*   "last"   suspended at a yield after which the generator ends           *)
(*   "done"   the generator has returned                                    *)
(***************************************************************************)
\* Mutant: the next read is issued while lines of the last one are unprocessed.
AfterLineEager(rest) == "read"

\* After an iteration of the for loop: the next line, or the next read.
AfterLine(rest) == IF rest = <<>> THEN "read" ELSE "loop"

\* HistoryItem as saveToHistory builds it.
HistoryItem(id, ts, t) ==
    [id |-> id, ts |-> ts, task |-> t, tokensIn |-> 0, tokensOut |-> 0,
     cacheWrites |-> 0, cacheReads |-> 0, totalCost |-> 0, isFavorited |-> FALSE]

NoItem == HistoryItem("", 0, "")

\* The [] that getTaskHistory returns from its catch.
EmptyHistory == [kind |-> "array", items |-> <<>>]

\* A generator that has not started: the locals of createMessage.
FreshStream ==
    /\ status = ""
    /\ body = <<>>
    /\ pos = 0
    /\ pending = <<>>
    /\ buffer = <<>>
    /\ lines = <<>>
    /\ out = <<>>
    /\ requests = 0
    /\ netError = FALSE

\* A controller on which executeTask has not been called.
IdleController ==
    /\ tpc = "idle"
    /\ task = ""
    /\ response = <<>>
    /\ relayed = <<>>
    /\ history = EmptyHistory
    /\ historyItem = NoItem
    /\ now = 0
    /\ turns = 0
    /\ ioFaults = 0
    /\ warnings = 0
    /\ completed = 0
    /\ result = "none"
    /\ rejected = 0

\* The three maps of CliContext, in the order loadState reads and saveState
\* writes their files.
Namespaces == <<"global", "workspace", "secrets">>
NsSet == {Namespaces[i] : i \in 1..3}
Keys == {"k1", "k2"}
\* What Map.get returns for a key the map does not hold (undefined).
Absent == "absent"
EmptyMap == [k \in Keys |-> Absent]
MissingFile == [kind |-> "missing", map |-> EmptyMap]

\* A CliContext whose maps are empty, with no file on disk and nothing
\* running.
IdleStore ==
    /\ mem = [n \in NsSet |-> EmptyMap]
    /\ disk = [n \in NsSet |-> MissingFile]
    /\ loadPc = 4
    /\ calls = <<>>

\* An ApiConfiguration with the fields the CLI reads.  A field that is not
\* set holds Unset.
Cfg(p, k, m, ok) ==
    [apiProvider |-> p, apiKey |-> k, apiModelId |-> m, openAiNativeApiKey |-> ok]

NoCfg == Cfg(Unset, Unset, Unset, Unset)

\* What a JSON file gives: an object, the JS value null (the file holds
\* `null`), or nothing (readFile or JSON.parse throws: "unreadable").
Obj(c) == [kind |-> "object", cfg |-> c]
Null == [kind |-> "null", cfg |-> NoCfg]
Unreadable == [kind |-> "unreadable", cfg |-> NoCfg]

NoOptions == [apiKey |-> Unset, provider |-> Unset, model |-> Unset, config |-> Unset]
NoFields == [apiKey |-> "", modelId |-> ""]
NoHeaders == [name |-> "", value |-> <<>>]

\* No InteractiveChat was made.
IdleChat ==
    /\ chatPc = "off"
    /\ isWaitingForResponse = FALSE
    /\ promptShown = FALSE
    /\ waitMsgs = 0
    /\ linesIn = 0
    /\ overlap = FALSE

\* The listener InteractiveChat registers for 'completed':
\* isWaitingForResponse = false; showPrompt().
OnCompleted ==
    IF chatPc = "off" THEN UNCHANGED hvars
    ELSE /\ isWaitingForResponse' = FALSE
         /\ promptShown' = TRUE
         /\ UNCHANGED <<chatPc, waitMsgs, linesIn, overlap>>

\* Mutant: the catch of handleUserInput reports the error and leaves the
\* flag as it is.
OnRejectedKeepsFlag == UNCHANGED hvars

\* sendMessage rejected: the catch of handleUserInput resets the flag and
\* shows the prompt (without a chat the caller in index.ts rethrows).
OnRejected ==
    IF chatPc = "off" THEN UNCHANGED hvars
    ELSE /\ isWaitingForResponse' = FALSE
         /\ promptShown' = TRUE
         /\ UNCHANGED <<chatPc, waitMsgs, linesIn, overlap>>

\* No command of index.ts is running.
IdleConfig ==
    /\ options = NoOptions
    /\ configFile = Unreadable
    /\ storedConfig = Unreadable
    /\ apiConfig = Null
    /\ fields = NoFields
    /\ headers = NoHeaders
    /\ cfgPc = "off"

InitDecode ==
    /\ IdleChat
    /\ IdleConfig
    /\ apiProvider \in ProviderIds
    /\ userMessage \in (IF apiProvider \in KnownProviders THEN {"m1"} ELSE UserMessages)
    /\ handler = ""
    /\ pc = "build"
    /\ FreshStream
    /\ IdleController
    /\ historyFile = [kind |-> "missing", items |-> <<>>]
    /\ log = <<>>
    /\ IdleStore

\* this.apiHandler = buildSimpleApiHandler(apiConfiguration);
\* const stream = this.apiHandler.createMessage(systemPrompt, description)
Build ==
    /\ pc = "build"
    /\ handler' = buildSimpleApiHandler(apiProvider)
    /\ pc' = "start"
    /\ UNCHANGED <<apiProvider, userMessage, status, body, pos, pending, buffer,
                   lines, out, requests, netError>>
    /\ UNCHANGED <<tvars, xvars>>

\* MockSimpleHandler.createMessage: the single yield.
MockYield ==
    /\ pc = "start"
    /\ handler = "MockSimpleHandler"
    /\ out' = Append(out, TextChunk(MockText(apiProvider, userMessage)))
    /\ pc' = "last"
    /\ UNCHANGED <<apiProvider, userMessage, handler, status, body, pos, pending,
                   buffer, lines, requests, netError>>
    /\ UNCHANGED <<tvars, xvars>>

\* fetch resolves with a success status and a body.
FetchOkFrom(S) ==
    /\ pc = "start"
    /\ handler \in NetworkHandlers
    /\ \E b \in S : body' = b
    /\ status' = OkStatus
    /\ requests' = requests + 1
    /\ pc' = "read"
    /\ UNCHANGED <<apiProvider, userMessage, handler, pos, pending, buffer, lines, out,
                   netError>>

FetchOk == FetchOkFrom(Bodies(handler)) /\ UNCHANGED <<tvars, xvars>>

\* Mutant: response.ok is not checked, the body of the error response is read.
FetchStatusUnchecked ==
    /\ pc = "start"
    /\ handler \in NetworkHandlers
    /\ \E st \in ErrorStatuses : status' = st
    /\ \E b \in {<<>>, <<"MO", "Hel", "C", "NL">>} : body' = b
    /\ requests' = requests + 1
    /\ pc' = "read"
    /\ UNCHANGED <<apiProvider, userMessage, handler, pos, pending, buffer, lines, out,
                   netError>>
    /\ UNCHANGED <<tvars, xvars>>

\* fetch resolves with !response.ok: throw, caught by the outer catch.
FetchStatus ==
    /\ pc = "start"
    /\ handler \in NetworkHandlers
    /\ \E st \in ErrorStatuses :
          /\ status' = st
          /\ out' = Append(out, ErrorChunk(StatusError(st)))
    /\ requests' = requests + 1
    /\ pc' = "last"
    /\ UNCHANGED <<apiProvider, userMessage, handler, body, pos, pending, buffer, lines, netError>>
    /\ UNCHANGED <<tvars, xvars>>

\* fetch resolves with a success status and no body: throw "No response body".
FetchNoBody ==
    /\ pc = "start"
    /\ handler \in NetworkHandlers
    /\ status' = OkStatus
    /\ out' = Append(out, ErrorChunk(NoBodyError))
    /\ requests' = requests + 1
    /\ pc' = "last"
    /\ UNCHANGED <<apiProvider, userMessage, handler, body, pos, pending, buffer, lines, netError>>
    /\ UNCHANGED <<tvars, xvars>>

\* fetch rejects.
FetchReject ==
    /\ pc = "start"
    /\ handler \in NetworkHandlers
    /\ out' = Append(out, ErrorChunk(NetworkError))
    /\ requests' = requests + 1
    /\ pc' = "last"
    /\ netError' = TRUE
    /\ UNCHANGED <<apiProvider, userMessage, handler, status, body, pos, pending,
                   buffer, lines>>
    /\ UNCHANGED <<tvars, xvars>>

\* reader.read() resolves with the next n bytes: decode, split, pop.
ReadValue ==
    /\ pc = "read"
    /\ \E n \in 1..(Len(body) - pos) :
          LET value == SubSeq(body, pos + 1, pos + n)
              dec == DecodeStream(pending, value)
              parts == Split(buffer \o dec.text)
          IN  /\ pos' = pos + n
              /\ pending' = dec.pending
              /\ buffer' = RetainedBuffer(parts)
              /\ lines' = CompleteLines(parts)
              /\ pc' = AfterLine(CompleteLines(parts))
    /\ UNCHANGED <<apiProvider, userMessage, handler, status, body, out, requests, netError>>
    /\ UNCHANGED <<tvars, xvars>>

\* Mutant: done is not looked at, the while loop reads again.
ReadDoneIgnored ==
    /\ pc = "read"
    /\ pos = Len(body)
    /\ pc' = "read"
    /\ UNCHANGED <<apiProvider, userMessage, handler, status, body, pos, pending,
                   buffer, lines, out, requests, netError>>
    /\ UNCHANGED <<tvars, xvars>>

\* reader.read() resolves with done: break.
ReadDone ==
    /\ pc = "read"
    /\ pos = Len(body)
    /\ pc' = "done"
    /\ UNCHANGED <<apiProvider, userMessage, handler, status, body, pos, pending,
                   buffer, lines, out, requests, netError>>
    /\ UNCHANGED <<tvars, xvars>>

\* Mutant: the rejection is caught inside the while loop, which goes on.
ReadRejectCaughtInLoop ==
    /\ pc = "read"
    /\ netError' = TRUE
    /\ out' = Append(out, [type |-> "error", text |-> <<"Error: ", "TypeError: fetch failed">>])
    /\ pc' = "read"
    /\ UNCHANGED <<apiProvider, userMessage, handler, status, body, pos, pending,
                   buffer, lines, requests>>
    /\ UNCHANGED <<tvars, xvars>>

\* reader.read() rejects: caught by the outer catch.
ReadReject ==
    /\ pc = "read"
    /\ out' = Append(out, ErrorChunk(NetworkError))
    /\ pc' = "last"
    /\ netError' = TRUE
    /\ UNCHANGED <<apiProvider, userMessage, handler, status, body, pos, pending,
                   buffer, lines, requests>>
    /\ UNCHANGED <<tvars, xvars>>

\* One iteration of the for loop, up to its yield if it has one.
ProcessLine ==
    /\ pc = "loop"
    /\ LET eff == LineEffect(handler, Head(lines)) IN
          CASE eff.kind = "skip" ->
                  /\ lines' = Tail(lines)
                  /\ pc' = AfterLine(Tail(lines))
                  /\ out' = out
            [] eff.kind = "return" ->
                  /\ lines' = Tail(lines)
                  /\ pc' = "done"
                  /\ out' = out
            [] OTHER ->
                  /\ lines' = lines
                  /\ pc' = "yield"
                  /\ out' = Append(out, TextChunk(eff.text))
    /\ UNCHANGED <<apiProvider, userMessage, handler, status, body, pos, pending,
                   buffer, requests, netError>>
    /\ UNCHANGED <<tvars, xvars>>

\* The consumer asks for the next chunk: the generator resumes after its yield.
ResumeGenerator ==
    /\ pc \in {"yield", "last"}
    /\ IF pc = "last" \/ LineEffect(handler, Head(lines)).kind = "yield_return"
       THEN /\ pc' = "done"
            /\ lines' = IF pc = "last" THEN lines ELSE Tail(lines)
       ELSE /\ pc' = AfterLine(Tail(lines))
            /\ lines' = Tail(lines)
    /\ UNCHANGED <<apiProvider, userMessage, handler, status, body, pos, pending,
                   buffer, out, requests, netError>>

Resume == ResumeGenerator /\ UNCHANGED <<tvars, xvars>>

NextDecode ==
    \/ Build
    \/ MockYield
    \/ FetchOk
    \/ FetchStatus
    \/ FetchNoBody
    \/ FetchReject
    \/ ReadValue
    \/ ReadDone
    \/ ReadReject
    \/ ProcessLine
    \/ Resume

SpecDecode == InitDecode /\ [][NextDecode]_vars

(***************************************************************************)
(* CliController.executeTask and saveToHistory, CliContext.getTaskHistory  *)
(* and saveTaskHistory.  tpc:                                              *)
(*   "idle"    no executeTask call is running                              *)
(*   "stream"  in the for await loop over the chunk sequence               *)
(*   "item"    saveToHistory called, historyItem not built                 *)
(*   "load"    at `await this.context.getTaskHistory()`                    *)
(*   "store"   at `await this.context.saveTaskHistory(...)`                *)
(*   "emit"    at this.emit('completed')                                   *)
(***************************************************************************)
\* history.slice(0, 100)
HistoryCap == 100

Min(a, b) == IF a <= b THEN a ELSE b

\* history.unshift(historyItem)
Unshift(h, it) == <<it>> \o h

\* Mutant: slice(0, 101).
SliceOffByOne(h) == SubSeq(h, 1, Min(HistoryCap + 1, Len(h)))

\* history.slice(0, 100)
Slice(h) == SubSeq(h, 1, Min(HistoryCap, Len(h)))

\* The history file before the session: records of earlier turns, newest
\* first, each older than the session's clock; or no file, or text that
\* JSON.parse rejects ("garbage"), or JSON that is not an array ("object").
StoredHistory(n) == [i \in 1..n |-> HistoryItem(ToString(0 - i), 0 - i, "old")]
InitLens == {0, HistoryCap - 1, HistoryCap}
InitHistoryFiles ==
    {[kind |-> "array", items |-> StoredHistory(n)] : n \in InitLens}
    \cup {[kind |-> k, items |-> <<>>] : k \in {"missing", "garbage", "object"}}

Tasks == {"t1", "t2"}
TurnProviders == {"ollama", "gemini"}
TurnBodies ==
    {<<"MO", "Hel", "C", "NL">>,
     <<"MO", "Hel", "C", "NL", "MO", "lo", "CD", "NL">>}

Streaming == tpc = "stream"

InitTurn ==
    /\ IdleChat
    /\ IdleConfig
    /\ apiProvider \in TurnProviders
    /\ userMessage = ""
    /\ handler = ""
    /\ pc = "build"
    /\ FreshStream
    /\ IdleController
    /\ historyFile \in InitHistoryFiles
    /\ log = historyFile.items
    /\ IdleStore

\* executeTask(description) up to the first pull of the for await loop:
\* a new generator is made by createMessage(systemPrompt, description).
\* What it does to the controller and the generator, for a description
\* out of S.
BeginTaskOf(S) ==
    /\ tpc = "idle"
    /\ pc = "start"
    /\ turns < MaxTurns
    /\ \E t \in S :
          /\ task' = t
          /\ userMessage' = t
    /\ tpc' = "stream"
    /\ response' = <<>>
    /\ relayed' = <<>>
    /\ result' = "none"
    /\ UNCHANGED <<apiProvider, handler, pc, status, body, pos, pending, buffer, lines,
                   out, requests, netError>>
    /\ UNCHANGED <<historyFile, history, historyItem, now, turns, log, ioFaults,
                   warnings, completed>>

\* executeTask called by a caller that is not the InteractiveChat.
StartTask == BeginTaskOf(Tasks) /\ UNCHANGED xvars

TurnFetchOk == Streaming /\ FetchOkFrom(TurnBodies) /\ UNCHANGED <<tvars, xvars>>

\* Mutant: only Text chunks are added to the response.
RelayChunkTextOnly ==
    /\ Streaming
    /\ UNCHANGED xvars
    /\ ResumeGenerator
    /\ LET chunk == out[Len(out)] IN
          /\ relayed' = Append(relayed, chunk)
          /\ response' = IF chunk.type = "text" THEN response \o chunk.text ELSE response
    /\ UNCHANGED <<tpc, task, historyFile, history, historyItem, now, turns, log,
                   ioFaults, warnings, completed, result>>

\* The body of the for await loop for the chunk just yielded, then the next
\* pull: process.stdout.write / console.error, response += chunk.text.
RelayChunk ==
    /\ Streaming
    /\ UNCHANGED xvars
    /\ ResumeGenerator
    /\ LET chunk == out[Len(out)] IN
          /\ relayed' = Append(relayed, chunk)
          /\ response' = response \o chunk.text
    /\ UNCHANGED <<tpc, task, historyFile, history, historyItem, now, turns, log,
                   ioFaults, warnings, completed, result>>

\* The generator is done: the loop ends and saveToHistory is called.
LoopExit ==
    /\ Streaming
    /\ UNCHANGED xvars
    /\ pc = "done"
    /\ tpc' = "item"
    /\ pc' = "start"
    /\ status' = ""
    /\ body' = <<>>
    /\ pos' = 0
    /\ pending' = <<>>
    /\ buffer' = <<>>
    /\ lines' = <<>>
    /\ out' = <<>>
    /\ requests' = 0
    /\ netError' = FALSE
    /\ UNCHANGED <<apiProvider, userMessage, handler>>
    /\ UNCHANGED <<task, response, relayed, historyFile, history, historyItem, now,
                   turns, log, ioFaults, warnings, completed, result>>

\* const historyItem = { id: Date.now().toString(), ts: Date.now(), task, ... }
\* The clock may have ticked since it was last read, before the first
\* Date.now() call or between the two.
BuildItem ==
    /\ tpc = "item"
    /\ \E d \in {<<0, 0>>, <<1, 0>>, <<0, 1>>} :
          /\ historyItem' = HistoryItem(ToString(now + d[1]), now + d[1] + d[2], task)
          /\ now' = now + d[1] + d[2]
    /\ tpc' = "load"
    /\ UNCHANGED <<dvars, xvars>>
    /\ UNCHANGED <<task, response, relayed, historyFile, history, turns, log, ioFaults,
                   warnings, completed, result>>

\* getTaskHistory: whatever JSON.parse makes of the file, or [] when
\* readFile or JSON.parse throws.
ReadHistory ==
    /\ tpc = "load"
    /\ \E ok \in (IF ioFaults + rejected < MaxFaults THEN BOOLEAN ELSE {TRUE}) :
          /\ history' = IF ok /\ historyFile.kind \in {"array", "object"}
                        THEN historyFile ELSE EmptyHistory
          /\ ioFaults' = IF ok THEN ioFaults ELSE ioFaults + 1
    /\ tpc' = "store"
    /\ UNCHANGED <<dvars, xvars>>
    /\ UNCHANGED <<task, response, relayed, historyFile, historyItem, now, turns, log,
                   warnings, completed, result>>

\* history.unshift(historyItem); saveTaskHistory(history.slice(0, 100)):
\* writeFile, or console.warn when it throws.  On a value that is not an
\* array unshift throws, and the catch of saveToHistory warns.
WriteHistory ==
    /\ tpc = "store"
    /\ IF history.kind = "array"
       THEN /\ \E ok \in (IF ioFaults + rejected < MaxFaults THEN BOOLEAN ELSE {TRUE}) :
                  /\ historyFile' =
                        IF ok
                        THEN [kind |-> "array",
                              items |-> Slice(Unshift(history.items, historyItem))]
                        ELSE historyFile
                  /\ warnings' = IF ok THEN warnings ELSE warnings + 1
                  /\ ioFaults' = IF ok THEN ioFaults ELSE ioFaults + 1
            /\ history' = [history EXCEPT !.items = Unshift(@, historyItem)]
       ELSE /\ warnings' = warnings + 1
            /\ UNCHANGED <<historyFile, ioFaults, history>>
    /\ log' = <<historyItem>> \o log
    /\ tpc' = "emit"
    /\ UNCHANGED <<dvars, xvars>>
    /\ UNCHANGED <<task, response, relayed, historyItem, now, turns, completed, result>>

\* Mutant: 'completed' is emitted without waiting for saveToHistory.
EmitEarly ==
    /\ tpc \in {"item", "emit"}
    /\ completed' = completed + 1
    /\ result' = "resolved"
    /\ turns' = turns + 1
    /\ tpc' = "idle"
    /\ task' = ""
    /\ response' = <<>>
    /\ relayed' = <<>>
    /\ history' = EmptyHistory
    /\ historyItem' = NoItem
    /\ UNCHANGED <<dvars, xvars>>
    /\ UNCHANGED <<historyFile, now, log, ioFaults, warnings>>

\* this.emit('completed'), then executeTask resolves and its locals die.
EmitCompleted ==
    /\ tpc = "emit"
    /\ completed' = completed + 1
    /\ result' = "resolved"
    /\ turns' = turns + 1
    /\ tpc' = "idle"
    /\ task' = ""
    /\ response' = <<>>
    /\ relayed' = <<>>
    /\ history' = EmptyHistory
    /\ historyItem' = NoItem
    /\ OnCompleted
    /\ UNCHANGED <<dvars, svars, rejected, cvars>>
    /\ UNCHANGED <<historyFile, now, log, ioFaults, warnings>>

\* A listener of 'completed' throws: emit throws after the event was
\* emitted, the catch of executeTask reports the fault and rethrows it.
EmitRejects ==
    /\ tpc = "emit"
    /\ ioFaults + rejected < MaxFaults
    /\ completed' = completed + 1
    /\ result' = "rejected"
    /\ rejected' = rejected + 1
    /\ turns' = turns + 1
    /\ tpc' = "idle"
    /\ task' = ""
    /\ response' = <<>>
    /\ relayed' = <<>>
    /\ history' = EmptyHistory
    /\ historyItem' = NoItem
    /\ UNCHANGED <<dvars, svars, cvars, hvars>>
    /\ UNCHANGED <<historyFile, now, log, ioFaults, warnings>>

\* Mutant: the catch of executeTask goes on to save the turn.
CatchSaves == "item"

\* Where executeTask is after its catch has reported and rethrown a fault.
CatchRethrows == "idle"

\* A fault thrown by the consumer's own code while the generator is
\* suspended (ora, console.log, process.stdout.write, console.error): the
\* catch of executeTask prints "Task failed" and rethrows; saveToHistory
\* is not reached.
TaskFault ==
    /\ Streaming
    /\ pc \in {"start", "yield", "last"}
    /\ ioFaults + rejected < MaxFaults
    /\ tpc' = CatchRethrows
    /\ result' = "rejected"
    /\ rejected' = rejected + 1
    /\ turns' = turns + 1
    /\ task' = IF tpc' = "idle" THEN "" ELSE task
    /\ response' = <<>>
    /\ relayed' = <<>>
    /\ pc' = "start"
    /\ status' = ""
    /\ body' = <<>>
    /\ pos' = 0
    /\ pending' = <<>>
    /\ buffer' = <<>>
    /\ lines' = <<>>
    /\ out' = <<>>
    /\ requests' = 0
    /\ netError' = FALSE
    /\ OnRejected
    /\ UNCHANGED <<apiProvider, userMessage, handler, svars, cvars>>
    /\ UNCHANGED <<historyFile, history, historyItem, now, log, ioFaults,
                   warnings, completed>>

NextTurn ==
    \/ Build
    \/ StartTask
    \/ Streaming /\ MockYield
    \/ TurnFetchOk
    \/ Streaming /\ FetchStatus
    \/ Streaming /\ FetchNoBody
    \/ Streaming /\ FetchReject
    \/ Streaming /\ ReadValue
    \/ Streaming /\ ReadDone
    \/ Streaming /\ ReadReject
    \/ Streaming /\ ProcessLine
    \/ RelayChunk
    \/ LoopExit
    \/ BuildItem
    \/ ReadHistory
    \/ WriteHistory
    \/ EmitCompleted

SpecTurn == InitTurn /\ [][NextTurn]_vars

\* The turns of a controller of the local-model decoder with the faults that
\* make executeTask reject.
InitFault ==
    /\ InitTurn
    /\ apiProvider = "ollama"
    /\ historyFile.kind \in {"missing", "garbage"}

NextFault ==
    \/ Build
    \/ StartTask
    \/ TurnFetchOk
    \/ Streaming /\ FetchStatus
    \/ Streaming /\ FetchNoBody
    \/ Streaming /\ FetchReject
    \/ Streaming /\ ReadValue
    \/ Streaming /\ ReadDone
    \/ Streaming /\ ReadReject
    \/ Streaming /\ ProcessLine
    \/ RelayChunk
    \/ LoopExit
    \/ BuildItem
    \/ ReadHistory
    \/ WriteHistory
    \/ EmitCompleted
    \/ EmitRejects
    \/ TaskFault

SpecFault == InitFault /\ [][NextFault]_vars

(***************************************************************************)
(* CliContext: the maps _globalState, _workspaceState, _secretStorage, the *)
(* files they are loaded from and saved to, the loadState the constructor  *)
(* starts without awaiting it, and the update / store / delete / dispose   *)
(* calls, each of which awaits one saveState.  A call is a record whose    *)
(* step is the file (1..3) saveState is writing, 4 once the call resolved, *)
(* 5 if it rejected; snap is the object handed to that writeFile, failedAt *)
(* the file whose writeFile rejected (0: none), and loaded tells whether   *)
(* loadState was over when the call was made.                              *)
(***************************************************************************)
\* Largest number of update / store / delete / dispose calls on one context.
MaxCalls == 2

\* A value already stored before the process started, and the value set.
StoredValue == "v0"
NewValue == "v1"

\* state.json / secrets.json as an earlier process left it, and a file
\* JSON.parse rejects.  The disk the context starts on: workspace state and
\* secrets stored, the global state.json not parsable.
StoredFile == [kind |-> "object", map |-> [k \in Keys |-> IF k = "k1" THEN StoredValue ELSE Absent]]
GarbageFile == [kind |-> "garbage", map |-> EmptyMap]
InitDisks ==
    {[n \in NsSet |-> IF n = "global" THEN f ELSE StoredFile] : f \in {GarbageFile}}

CallInputs ==
    {[op |-> "update", ns |-> "global", key |-> "k2", value |-> NewValue],
     [op |-> "update", ns |-> "workspace", key |-> "k2", value |-> NewValue],
     [op |-> "store", ns |-> "secrets", key |-> "k2", value |-> NewValue],
     [op |-> "delete", ns |-> "secrets", key |-> "k1", value |-> Absent],
     [op |-> "dispose", ns |-> "global", key |-> "k1", value |-> Absent]}

\* Map.set(key, value) / Map.delete(key); dispose changes no map.
Mutate(m, c) ==
    IF c.op = "dispose" THEN m
    ELSE IF c.op = "delete" THEN [m EXCEPT ![c.key] = Absent]
    ELSE [m EXCEPT ![c.key] = c.value]

\* JSON.stringify(Object.fromEntries(map)) as writeFile stores it, and
\* new Map(Object.entries(JSON.parse(content))) of such a file.
Stringify(m) == [kind |-> "object", map |-> m]
Parse(f) == f.map

InitStore ==
    /\ IdleChat
    /\ IdleConfig
    /\ apiProvider = "ollama"
    /\ userMessage = ""
    /\ handler = ""
    /\ pc = "build"
    /\ FreshStream
    /\ IdleController
    /\ historyFile = [kind |-> "missing", items |-> <<>>]
    /\ log = <<>>
    /\ mem = [n \in NsSet |-> EmptyMap]
    /\ disk \in InitDisks
    /\ loadPc = 1
    /\ calls = <<>>

StoreFrame == UNCHANGED <<dvars, rejected, cvars, hvars>> /\
              UNCHANGED <<tpc, task, response, relayed, historyFile, history, historyItem,
                          now, turns, log, completed, result>>

\* loadState: one readFile has completed.  A parsed file replaces the map;
\* a missing or unparsable one leaves it as it is (the inner catch).
LoadRead ==
    /\ loadPc \in 1..3
    /\ LET n == Namespaces[loadPc] IN
          mem' = IF disk[n].kind = "object"
                 THEN [mem EXCEPT ![n] = Parse(disk[n])]
                 ELSE mem
    /\ loadPc' = loadPc + 1
    /\ UNCHANGED <<disk, calls, ioFaults, warnings>>
    /\ StoreFrame

\* update / store / delete / dispose up to the first await of saveState:
\* the map is changed, globalStateObj is built and its writeFile is issued.
BeginCall ==
    /\ Len(calls) < MaxCalls
    /\ \E c \in CallInputs :
          /\ mem' = [mem EXCEPT ![c.ns] = Mutate(@, c)]
          /\ calls' = Append(calls, [op |-> c.op, ns |-> c.ns, key |-> c.key,
                                     value |-> c.value, step |-> 1,
                                     snap |-> mem'["global"], failedAt |-> 0,
                                     loaded |-> (loadPc = 4)])
    /\ UNCHANGED <<disk, loadPc, ioFaults, warnings>>
    /\ StoreFrame

\* Mutant: the rejection of writeFile leaves saveState and the call rejects.
SaveRethrow(c) == [c EXCEPT !.step = 5, !.snap = EmptyMap, !.failedAt = c.step]

\* The catch of saveState: the later files are not written, saveState
\* returns and the call resolves.
SaveCatch(c) == [c EXCEPT !.step = 4, !.snap = EmptyMap, !.failedAt = c.step]

\* A writeFile of saveState has settled.  Fulfilled: the file holds the
\* object handed to it, and saveState builds the next object from the map
\* as it is now and issues the next writeFile, or returns after the third.
\* Rejected: the catch warns and saveState returns, the later files unwritten.
SaveWrite ==
    /\ \E i \in 1..Len(calls) :
          LET c == calls[i] IN
          /\ c.step \in 1..3
          /\ \E ok \in (IF ioFaults < MaxFaults THEN BOOLEAN ELSE {TRUE}) :
                IF ok
                THEN /\ disk' = [disk EXCEPT ![Namespaces[c.step]] = Stringify(c.snap)]
                     /\ calls' = [calls EXCEPT ![i] =
                                    [c EXCEPT !.step = c.step + 1,
                                              !.snap = IF c.step < 3
                                                       THEN mem[Namespaces[c.step + 1]]
                                                       ELSE EmptyMap]]
                     /\ UNCHANGED <<warnings, ioFaults>>
                ELSE /\ calls' = [calls EXCEPT ![i] = SaveCatch(c)]
                     /\ warnings' = warnings + 1
                     /\ ioFaults' = ioFaults + 1
                     /\ UNCHANGED disk
    /\ UNCHANGED <<mem, loadPc>>
    /\ StoreFrame

NextStore ==
    \/ LoadRead
    \/ BeginCall
    \/ SaveWrite

SpecStore == InitStore /\ [][NextStore]_vars

(***************************************************************************)
(* InteractiveChat: the 'line' listener, handleUserInput, showPrompt, exit, *)
(* and the listener of 'completed', over the turns of one controller.       *)
(***************************************************************************)
\* Largest number of lines, other than exit commands, that come in.
MaxLines == 2

\* Mutant: handleUserInput does not raise the flag.
FlagLeftDown == FALSE

\* this.isWaitingForResponse = true, in handleUserInput
FlagRaised == TRUE

\* The trimmed lines that are neither empty nor an exit command.
ChatInputs == {"t1"}

\* The process has not exited.
Alive == chatPc \in {"on", "exiting"}

InitChat ==
    /\ IdleConfig
    /\ apiProvider = "ollama"
    /\ userMessage = ""
    /\ handler = ""
    /\ pc = "build"
    /\ FreshStream
    /\ IdleController
    /\ historyFile = [kind |-> "missing", items |-> <<>>]
    /\ log = historyFile.items
    /\ IdleStore
    /\ chatPc = "on"
    /\ isWaitingForResponse = FALSE
    /\ promptShown = TRUE
    /\ waitMsgs = 0
    /\ linesIn = 0
    /\ overlap = FALSE

\* A 'line' event changes nothing of the store or of the configuration.
LineFrame == UNCHANGED <<svars, rejected, cvars, chatPc>>

\* A line that is not an exit command comes in while the flag is up:
\* "Please wait for the current response to complete...", showPrompt()
\* (which shows nothing while the flag is up), return.
WaitLine ==
    /\ Alive
    /\ linesIn < MaxLines
    /\ isWaitingForResponse
    /\ waitMsgs' = waitMsgs + 1
    /\ linesIn' = linesIn + 1
    /\ promptShown' = FALSE
    /\ UNCHANGED <<isWaitingForResponse, overlap>>
    /\ UNCHANGED <<dvars, tvars>>
    /\ LineFrame

\* An empty line comes in while the flag is down: showPrompt(), return.
EmptyLine ==
    /\ Alive
    /\ linesIn < MaxLines
    /\ ~isWaitingForResponse
    /\ linesIn' = linesIn + 1
    /\ promptShown' = TRUE
    /\ UNCHANGED <<isWaitingForResponse, waitMsgs, overlap>>
    /\ UNCHANGED <<dvars, tvars>>
    /\ LineFrame

\* A message comes in while the flag is down: handleUserInput raises the
\* flag and calls controller.sendMessage(input), that is executeTask(input).
HandleUserInput ==
    /\ Alive
    /\ linesIn < MaxLines
    /\ ~isWaitingForResponse
    /\ linesIn' = linesIn + 1
    /\ promptShown' = FALSE
    /\ isWaitingForResponse' = FlagRaised
    /\ \/ /\ tpc # "idle"
          /\ overlap' = TRUE
          /\ UNCHANGED <<dvars, tvars>>
       \/ /\ BeginTaskOf(ChatInputs)
          /\ overlap' = overlap
    /\ UNCHANGED waitMsgs
    /\ LineFrame

\* An exit command or SIGINT: exit() up to `await this.controller.dispose()`.
\* (A second one while the first is awaited changes nothing.)
Exit ==
    /\ chatPc = "on"
    /\ chatPc' = "exiting"
    /\ UNCHANGED <<isWaitingForResponse, promptShown, waitMsgs, linesIn, overlap>>
    /\ UNCHANGED <<dvars, tvars, svars, rejected, cvars>>

\* dispose has settled: this.rl.close(); process.exit(0)
ExitDone ==
    /\ chatPc = "exiting"
    /\ chatPc' = "closed"
    /\ UNCHANGED <<isWaitingForResponse, promptShown, waitMsgs, linesIn, overlap>>
    /\ UNCHANGED <<dvars, tvars, svars, rejected, cvars>>

\* The steps of a turn that go on when nothing fails.
TurnProgress ==
    \/ Build
    \/ TurnFetchOk
    \/ Streaming /\ ReadValue
    \/ Streaming /\ ReadDone
    \/ Streaming /\ ProcessLine
    \/ RelayChunk
    \/ LoopExit
    \/ BuildItem
    \/ ReadHistory
    \/ WriteHistory
    \/ EmitCompleted

NextChat ==
    \/ WaitLine
    \/ EmptyLine
    \/ HandleUserInput
    \/ Exit
    \/ ExitDone
    \/ Alive /\ Build
    \/ Alive /\ TurnFetchOk
    \/ Alive /\ Streaming /\ FetchStatus
    \/ Alive /\ Streaming /\ FetchNoBody
    \/ Alive /\ Streaming /\ FetchReject
    \/ Alive /\ Streaming /\ ReadValue
    \/ Alive /\ Streaming /\ ReadDone
    \/ Alive /\ Streaming /\ ReadReject
    \/ Alive /\ Streaming /\ ProcessLine
    \/ Alive /\ RelayChunk
    \/ Alive /\ LoopExit
    \/ Alive /\ BuildItem
    \/ Alive /\ ReadHistory
    \/ Alive /\ WriteHistory
    \/ Alive /\ EmitCompleted
    \/ Alive /\ TaskFault

SpecChat == InitChat /\ [][NextChat]_vars

\* The chat with a turn that goes on as long as the process lives: fetch and
\* every read settle, the generator and executeTask run on, the file
\* operations of saveToHistory settle.  Failures may happen and are never
\* forced; lines and exit commands come in or not.
SpecChatLive == SpecChat /\ WF_vars(Alive /\ TurnProgress)

(***************************************************************************)
(* index.ts: loadApiConfiguration, the handler built from its result and    *)
(* the request the handler issues; configureSettings.  cfgPc:               *)
(*   "load"    at loadApiConfiguration                                      *)
(*   "ready"   a configuration was returned                                 *)
(*   "built"   new CliController(context, apiConfig) has built the handler  *)
(*   "sent"    createMessage has issued its request (none for the mock)     *)
(*   "prompt"  no configuration: at configureSettings                       *)
(*   "saved"   configureSettings has saved the answers, the command returns *)
(*   "fatal"   saveApiConfiguration threw: process.exit(1)                  *)
(***************************************************************************)
\* A value that a JS condition or || takes as true.
Truthy(v) == v \notin {Unset, ""}
Or(v, d) == IF Truthy(v) THEN v ELSE d

CliKeys == {Unset, "K"}
CliProviders == {Unset, "anthropic", "openai-native", "siliconflow", "ollama", "gemini"}
CliModels == {Unset, "", "M"}
CliConfigPaths == {Unset, "cfg.json"}

\* Files named by --config: unreadable, `null`, a configuration with an
\* apiKey, a configuration with the openAiNativeApiKey field.
ConfigFiles ==
    {Unreadable, Null,
     Obj(Cfg("anthropic", "KF", "MF", Unset)),
     Obj(Cfg("openai-native", Unset, Unset, "KN"))}

\* getDefaultModel(provider)
getDefaultModel(p) ==
    CASE p = "anthropic" -> "claude-3-5-sonnet-20241022"
      [] p = "openai-native" -> "gpt-4o"
      [] p = "siliconflow" -> "Qwen/Qwen2.5-7B-Instruct"
      [] p = "openrouter" -> "anthropic/claude-3.5-sonnet"
      [] p = "gemini" -> "gemini-1.5-pro-latest"
      [] p = "ollama" -> "llama3.2"
      [] OTHER -> ""

\* The configuration configureSettings saves for the answers given.
Configured(p, k, m) == Cfg(p, k, Or(m, getDefaultModel(p)), Unset)

\* api-config.json: missing, or as configureSettings saved it.
StoredConfigs ==
    {Unreadable,
     Obj(Configured("siliconflow", "KS", "")),
     Obj(Configured("openai-native", "KS", "M"))}

\* context.getApiConfiguration()
getApiConfiguration(stored) == IF stored.kind = "unreadable" THEN Null ELSE stored

\* loadApiConfiguration(options, context)
loadApiConfiguration(o, file, stored) ==
    IF Truthy(o.apiKey) /\ Truthy(o.provider)
    THEN Obj(Cfg(o.provider, o.apiKey, o.model, Unset))
    ELSE IF Truthy(o.config) /\ file.kind # "unreadable"
    THEN file
    ELSE getApiConfiguration(stored)

\* The constructors of the handlers.
Construct(h, c) ==
    CASE h = "AnthropicSimpleHandler" ->
            [apiKey |-> Or(c.apiKey, ""),
             modelId |-> Or(c.apiModelId, "claude-3-5-sonnet-20241022")]
      [] h = "OpenAISimpleHandler" ->
            [apiKey |-> Or(c.openAiNativeApiKey, ""),
             modelId |-> Or(c.apiModelId, "gpt-4o")]
      [] h = "SiliconFlowSimpleHandler" ->
            [apiKey |-> Or(c.apiKey, ""),
             modelId |-> Or(c.apiModelId, "Qwen/Qwen2.5-7B-Instruct")]
      [] h = "OllamaSimpleHandler" ->
            [apiKey |-> "", modelId |-> Or(c.apiModelId, "llama3.2")]
      [] OTHER ->
            [apiKey |-> "", modelId |-> Or(c.apiModelId, "mock-model")]

\* The header of the fetch call that carries the credential.
AuthHeader(h, f) ==
    CASE h = "AnthropicSimpleHandler" -> [name |-> "x-api-key", value |-> <<f.apiKey>>]
      [] h \in {"OpenAISimpleHandler", "SiliconFlowSimpleHandler"} ->
            [name |-> "Authorization", value |-> <<"Bearer ", f.apiKey>>]
      [] OTHER -> NoHeaders

\* getModel().id
getModel == fields.modelId

InitConfig ==
    /\ IdleChat
    /\ apiProvider = Unset
    /\ userMessage = "m1"
    /\ handler = ""
    /\ pc = "build"
    /\ FreshStream
    /\ IdleController
    /\ historyFile = [kind |-> "missing", items |-> <<>>]
    /\ log = <<>>
    /\ IdleStore
    /\ options \in [apiKey : CliKeys, provider : CliProviders, model : CliModels,
                    config : CliConfigPaths]
    /\ configFile \in (IF Truthy(options.config) THEN ConfigFiles ELSE {Unreadable})
    /\ storedConfig \in StoredConfigs
    /\ apiConfig = Null
    /\ fields = NoFields
    /\ headers = NoHeaders
    /\ cfgPc = "load"

ConfigFrame ==
    /\ UNCHANGED <<userMessage, status, body, pos, pending, buffer, lines, out, netError>>
    /\ UNCHANGED <<tpc, task, response, relayed, historyFile, history, historyItem, now,
                   turns, log, ioFaults, completed, result>>
    /\ UNCHANGED <<svars, rejected, hvars, options, configFile>>

\* const apiConfig = await loadApiConfiguration(options, context);
\* if (!apiConfig) { ... configureSettings ... return }
LoadApiConfiguration ==
    /\ cfgPc = "load"
    /\ apiConfig' = loadApiConfiguration(options, configFile, storedConfig)
    /\ cfgPc' = IF apiConfig'.kind = "null" THEN "prompt" ELSE "ready"
    /\ warnings' = IF /\ ~(Truthy(options.apiKey) /\ Truthy(options.provider))
                      /\ Truthy(options.config)
                      /\ configFile.kind = "unreadable"
                   THEN warnings + 1 ELSE warnings
    /\ UNCHANGED <<apiProvider, handler, pc, requests, storedConfig, fields, headers>>
    /\ ConfigFrame

\* new CliController(context, apiConfig): buildSimpleApiHandler(apiConfiguration)
BuildHandler ==
    /\ cfgPc = "ready"
    /\ apiProvider' = apiConfig.cfg.apiProvider
    /\ handler' = buildSimpleApiHandler(apiProvider')
    /\ fields' = Construct(handler', apiConfig.cfg)
    /\ pc' = "start"
    /\ cfgPc' = "built"
    /\ UNCHANGED <<requests, storedConfig, apiConfig, headers, warnings>>
    /\ ConfigFrame

\* createMessage up to its fetch call; the mock handler issues no request.
SendRequest ==
    /\ cfgPc = "built"
    /\ IF handler \in NetworkHandlers
       THEN /\ headers' = AuthHeader(handler, fields)
            /\ requests' = requests + 1
       ELSE UNCHANGED <<headers, requests>>
    /\ cfgPc' = "sent"
    /\ UNCHANGED <<apiProvider, handler, pc, storedConfig, apiConfig, fields, warnings>>
    /\ ConfigFrame

\* configureSettings: the answers of inquirer.prompt, then
\* saveApiConfiguration, which throws when its writeFile fails.
ConfigureSettings ==
    /\ cfgPc = "prompt"
    /\ \E p \in {"anthropic", "openai-native", "ollama"}, m \in {"", "M"}, ok \in BOOLEAN :
          LET k == IF p = "ollama" THEN Unset ELSE "K2" IN
          IF ok
          THEN /\ storedConfig' = Obj(Configured(p, k, m))
               /\ cfgPc' = "saved"
          ELSE /\ storedConfig' = storedConfig
               /\ cfgPc' = "fatal"
    /\ UNCHANGED <<apiProvider, handler, pc, requests, apiConfig, fields, headers, warnings>>
    /\ ConfigFrame

NextConfig ==
    \/ LoadApiConfiguration
    \/ BuildHandler
    \/ SendRequest
    \/ ConfigureSettings

SpecConfig == InitConfig /\ [][NextConfig]_vars

(***************************************************************************)
(* What the specification says of a stream, stated on the frames of body.  *)
(***************************************************************************)
IsPrefix(a, b) == Len(a) <= Len(b) /\ SubSeq(b, 1, Len(a)) = a

IsText(c) == c.type = "text"
IsError(c) == c.type = "error"

\* Payloads of the Text chunks of cs, in order.
TextsOf(cs) ==
    LET ts == SelectSeq(cs, IsText) IN [i \in 1..Len(ts) |-> ts[i].text]

ErrorCount(cs) == Len(SelectSeq(cs, IsError))

\* The newline-terminated lines of a byte sequence, decoded as a whole.
FramesOf(bytes) ==
    LET parts == Split(Utf8Decode(<<>>, bytes, <<>>).text)
    IN  SubSeq(parts, 1, Len(parts) - 1)

\* The text after the last newline of a byte sequence, decoded as a whole.
FragmentOf(bytes) ==
    LET parts == Split(Utf8Decode(<<>>, bytes, <<>>).text) IN parts[Len(parts)]

Frames == FramesOf(body)
Delivered == SubSeq(body, 1, pos)

\* Number of delivered frames whose loop iteration has finished.
Consumed == Len(FramesOf(Delivered)) - Len(lines)

IsSse(h) == h \in NetworkHandlers \ {"OllamaSimpleHandler"}

\* The JSON text of a frame: after "data: " for SSE, the line for Ollama.
IsFrame(h, line) ==
    IF IsSse(h) THEN line # <<>> /\ Head(line) = "P" ELSE Trim(line) # <<>>
FrameData(h, line) == IF IsSse(h) THEN Tail(line) ELSE line

IsEndSentinel(h, line) ==
    /\ IsFrame(h, line)
    /\ IF IsSse(h) THEN FrameData(h, line) = <<"DONE">>
       ELSE JsonParse(line).ok /\ JsonParse(line).done

DeltaPath(h) ==
    IF h = "AnthropicSimpleHandler" THEN "delta"
    ELSE IF h = "OllamaSimpleHandler" THEN "message" ELSE "choices"

\* The frame is well-formed JSON holding a string at the provider's delta path.
CarriesDelta(h, line) ==
    /\ IsFrame(h, line)
    /\ LET v == JsonParse(FrameData(h, line)) IN
          /\ v.ok
          /\ v.path = DeltaPath(h)
          /\ (h = "AnthropicSimpleHandler" => v.type = "content_block_delta")

DeltaValue(h, line) == JsonParse(FrameData(h, line)).text

\* The frame does not parse as JSON, or parses and holds no text delta.
NoDelta(h, line) ==
    /\ IsFrame(h, line)
    /\ ~(IsSse(h) /\ FrameData(h, line) = <<"DONE">>)
    /\ ~CarriesDelta(h, line)

FirstSentinel(h, fs) ==
    IF \E i \in 1..Len(fs) : IsEndSentinel(h, fs[i])
    THEN CHOOSE i \in 1..Len(fs) :
            /\ IsEndSentinel(h, fs[i])
            /\ \A j \in 1..(i - 1) : ~IsEndSentinel(h, fs[j])
    ELSE 0

\* The frames up to the first end sentinel, the sentinel frame included.
UpToSentinel(h, fs) ==
    IF FirstSentinel(h, fs) = 0 THEN fs ELSE SubSeq(fs, 1, FirstSentinel(h, fs))

\* The delta values of the frames fs, in order; empty values too if withEmpty.
RECURSIVE DeltaValues(_, _, _)
DeltaValues(h, fs, withEmpty) ==
    IF fs = <<>> THEN <<>>
    ELSE (IF /\ CarriesDelta(h, Head(fs))
             /\ (withEmpty \/ DeltaValue(h, Head(fs)) # <<>>)
          THEN <<DeltaValue(h, Head(fs))>> ELSE <<>>)
         \o DeltaValues(h, Tail(fs), withEmpty)

\* The sequence ended with the whole body read or at a sentinel, no failure.
EndedClean ==
    /\ pc = "done"
    /\ handler \in NetworkHandlers
    /\ status = OkStatus
    /\ ErrorCount(out) = 0

(***************************************************************************)
(* A single read of the whole body, with the decoder's own operators.      *)
(***************************************************************************)
RECURSIVE RunLines(_, _, _)
RunLines(h, ls, acc) ==
    IF ls = <<>> THEN acc
    ELSE LET eff == LineEffect(h, Head(ls)) IN
         IF eff.kind = "skip" THEN RunLines(h, Tail(ls), acc)
         ELSE IF eff.kind = "return" THEN acc
         ELSE IF eff.kind = "yield" THEN RunLines(h, Tail(ls), Append(acc, eff.text))
         ELSE Append(acc, eff.text)

OneRead(h, b) ==
    LET dec == DecodeStream(<<>>, b)
    IN  RunLines(h, CompleteLines(Split(dec.text)), <<>>)

(***************************************************************************)
(* Claims                                                                   *)
(***************************************************************************)

\* C1: split-invariance.  However the body is cut into reads, the Text
\* payloads yielded are at every moment a prefix of, and at a clean end
\* equal to, the payloads a single read of the whole body yields.
C1_SplitInvariance ==
    (handler \in NetworkHandlers /\ status = OkStatus) =>
        /\ IsPrefix(TextsOf(out), OneRead(handler, body))
        /\ (EndedClean => TextsOf(out) = OneRead(handler, body))

\* A read ended inside the two-byte character of a frame, after a chunk of
\* an earlier frame came out; the part of the frame read so far is retained.
C1_Witness ==
    /\ pc = "read"
    /\ pending = <<"U1">>
    /\ buffer # <<>>
    /\ Len(out) = 1
    /\ Len(OneRead(handler, body)) = 2

\* C2: once the end sentinel frame has been processed the generator has
\* returned, exactly the chunks of the frames up to the sentinel were
\* yielded, and from then on no step is taken: nothing is yielded, no read
\* is issued.
SentinelProcessed ==
    /\ handler \in NetworkHandlers
    /\ status = OkStatus
    /\ FirstSentinel(handler, Frames) > 0
    /\ Consumed >= FirstSentinel(handler, Frames)

C2_SentinelEnds ==
    /\ [](SentinelProcessed =>
            /\ pc = "done"
            /\ Consumed = FirstSentinel(handler, Frames)
            /\ TextsOf(out) = DeltaValues(handler, UpToSentinel(handler, Frames), FALSE)
            /\ ErrorCount(out) = 0)
    /\ [][~SentinelProcessed]_vars

\* The sentinel was processed while a complete text frame of the same read
\* was still waiting in lines and bytes were left in the buffer.
C2_Witness ==
    /\ SentinelProcessed
    /\ pc = "done"
    /\ lines # <<>>
    /\ CarriesDelta(handler, Head(lines))
    /\ buffer # <<>>
    /\ out # <<>>

\* C3 as claimed: a frame that does not parse, or parses without the text
\* delta field, yields nothing and does not end the sequence.
C3_Original ==
    [][(pc = "loop" /\ NoDelta(handler, Head(lines)))
          => (out' = out /\ pc' \in {"loop", "read"})]_vars

\* C3: a frame that does not parse, or parses without the text delta field,
\* and is not the end sentinel, yields no chunk and the loop goes on to the
\* next line; the text frames around it yield their chunks in order.
C3_MalformedSkipped ==
    /\ [][(/\ pc = "loop"
           /\ NoDelta(handler, Head(lines))
           /\ ~IsEndSentinel(handler, Head(lines)))
          => (/\ out' = out
              /\ lines' = Tail(lines)
              /\ pc' = (IF Tail(lines) = <<>> THEN "read" ELSE "loop"))]_vars
    /\ [](EndedClean /\ (\E i \in 1..Len(UpToSentinel(handler, Frames)) :
                             NoDelta(handler, Frames[i]))
            => TextsOf(out) = DeltaValues(handler, UpToSentinel(handler, Frames), FALSE))

\* A dropped frame sits between two text frames, and both chunks came out.
C3_Witness ==
    /\ EndedClean
    /\ Len(Frames) = 3
    /\ CarriesDelta(handler, Frames[1])
    /\ NoDelta(handler, Frames[2])
    /\ ~IsEndSentinel(handler, Frames[2])
    /\ CarriesDelta(handler, Frames[3])
    /\ TextsOf(out) = <<DeltaValue(handler, Frames[1]), DeltaValue(handler, Frames[3])>>
    /\ Frames[1] # Frames[3]

\* C4: a response with a non-success status yields exactly one chunk, an
\* Error chunk naming the status, and the body is never read.
C4_StatusError ==
    (status \in ErrorStatuses) =>
        /\ pc \in {"last", "done"}
        /\ Len(out) = 1
        /\ out[1].type = "error"
        /\ \E i \in 1..Len(out[1].text) : out[1].text[i] = status
        /\ pos = 0
        /\ buffer = <<>>
        /\ requests = 1

C4_Witness == status = "404" /\ pc = "done" /\ pos = 0 /\ Len(out) = 1

\* C5: after a rejection of fetch or of a read the sequence holds exactly
\* one Error chunk, it is the last chunk, and the generator ends; no
\* sequence ever holds two Error chunks or a chunk after an Error chunk.
C5_RejectOneError ==
    /\ ErrorCount(out) <= 1
    /\ (ErrorCount(out) = 1 => IsError(out[Len(out)]) /\ pc \in {"last", "done"})
    /\ (netError => ErrorCount(out) = 1)

\* A read rejected after two Text chunks had been yielded.
C5_Witness ==
    /\ netError
    /\ pc = "done"
    /\ Len(out) = 3
    /\ IsText(out[1]) /\ IsText(out[2]) /\ IsError(out[3])

\* C6 as claimed: every frame holding a string at the delta path, the empty
\* string too, yields one Text chunk with that value.
C6_Original ==
    EndedClean => TextsOf(out) = DeltaValues(handler, UpToSentinel(handler, Frames), TRUE)

\* C6: the Text chunks of a cleanly ended sequence are exactly the non-empty
\* delta values of the frames up to the end sentinel, one chunk per frame,
\* unchanged and in frame order, and there is no other chunk.
C6_DeltaVerbatim ==
    EndedClean =>
        /\ TextsOf(out) = DeltaValues(handler, UpToSentinel(handler, Frames), FALSE)
        /\ Len(out) = Len(TextsOf(out))

\* Two different deltas, one with an embedded newline and space, came out in
\* frame order.
C6_Witness ==
    /\ EndedClean
    /\ Len(out) = 2
    /\ out[1].text # out[2].text
    /\ \E i \in 1..2 : out[i].text = <<"NL", "SP">>

\* C7: only newline-terminated text is parsed.  The buffer is the text
\* received after the last newline, and every chunk yielded comes from a
\* line whose newline has been received.
C7_FragmentRetained ==
    (handler \in NetworkHandlers /\ status = OkStatus /\ pc # "start") =>
        /\ buffer = FragmentOf(Delivered)
        /\ Consumed >= 0
        /\ lines = SubSeq(FramesOf(Delivered), Consumed + 1, Len(FramesOf(Delivered)))
        /\ IsPrefix(TextsOf(out), DeltaValues(handler, FramesOf(Delivered), FALSE))

\* A whole text frame without its newline is in the buffer, unparsed, at a
\* read that follows a chunk.
C7_Witness ==
    /\ pc = "read"
    /\ handler \in NetworkHandlers
    /\ CarriesDelta(handler, buffer)
    /\ DeltaValue(handler, buffer) # <<>>
    /\ Len(out) = 1
    /\ pos < Len(body)

\* C8 as claimed, for the body of the two objects separated by a newline.
HelloBody == <<"MO", "Hel", "C", "NL", "MO", "lo", "CD">>

C8_Hello ==
    (handler = "OllamaSimpleHandler" /\ EndedClean /\ body = HelloBody)
        => TextsOf(out) = << <<"Hel">>, <<"lo">> >>

StoredBefore == Cardinality({i \in DOMAIN log : log[i].task = "old"})
Saved == completed + (IF tpc = "emit" THEN 1 ELSE 0)

\* C10 as claimed: k completed turns after h stored records always leave
\* min(h + k, HistoryCap) records, whatever happened to the reads and writes.
C10_Original ==
    Len(historyFile.items) = Min(StoredBefore + Saved, HistoryCap)

\* C10: the stored history never holds more than HistoryCap records and is
\* ordered newest first; while every read and every save of the history has
\* succeeded (no failed read, no warning) it is the HistoryCap newest of all
\* records, the most recent turn in front, and its length is
\* min(h + k, HistoryCap).
C10_HistoryCap ==
    LET items == historyFile.items IN
    /\ Len(items) <= HistoryCap
    /\ \A i \in 1..(Len(items) - 1) : items[i].ts >= items[i + 1].ts
    /\ (ioFaults = 0 /\ warnings = 0 =>
          /\ items = SubSeq(log, 1, Min(Len(log), HistoryCap))
          /\ Len(items) = Min(StoredBefore + Saved, HistoryCap)
          /\ (Saved > 0 => historyFile.kind = "array" /\ items[1].task \in Tasks))

\* Two turns after 99 stored records: 100 records, the newest first, the
\* oldest stored record evicted.
C10_Witness ==
    /\ tpc = "idle"
    /\ completed = 2
    /\ ioFaults = 0
    /\ warnings = 0
    /\ StoredBefore = HistoryCap - 1
    /\ Len(historyFile.items) = HistoryCap
    /\ historyFile.items[1].task \in Tasks
    /\ historyFile.items[2].task \in Tasks
    /\ historyFile.items[HistoryCap].ts = 0 - (HistoryCap - 2)


(***************************************************************************)
(* The state store                                                         *)
(***************************************************************************)
NsIndex(n) == CHOOSE i \in 1..3 : Namespaces[i] = n
IsSet(c) == c.op \in {"update", "store", "delete"}
Resolved(c) == c.step = 4
\* No call made after call i sets or deletes the same key of the same map.
LastOnKey(i) ==
    \A j \in (i + 1)..Len(calls) :
        ~(IsSet(calls[j]) /\ calls[j].ns = calls[i].ns /\ calls[j].key = calls[i].key)

\* C11 as claimed: once update / store / delete of a key has resolved, get
\* of that key returns the value set (absent after delete) until the key is
\* set again, whether or not loadState is over.
C11_RoundTrip ==
    \A i \in 1..Len(calls) :
        (IsSet(calls[i]) /\ Resolved(calls[i]) /\ LastOnKey(i))
            => mem[calls[i].ns][calls[i].key] = calls[i].value

\* C13 as claimed, for a single call made after loadState was over: when a
\* set resolves and the writeFile of its own file did not reject, that file
\* holds the map as it is in memory.
C13_OnDisk ==
    [][\A i \in 1..Len(calls) :
          (/\ IsSet(calls[i])
           /\ Len(calls) = 1
           /\ calls[i].loaded
           /\ calls[i].step \in 1..3
           /\ Resolved(calls'[i])
           /\ calls'[i].failedAt # NsIndex(calls[i].ns))
          => disk'[calls[i].ns] = Stringify(mem'[calls[i].ns])]_vars

\* C14 as claimed: a key stored on disk for a namespace keeps its value as
\* long as every call made is a set on another namespace.
C14_OthersKept ==
    \A n \in {"workspace", "secrets"} :
        (\A i \in 1..Len(calls) : IsSet(calls[i]) /\ calls[i].ns # n)
            => (disk[n].kind = "object" /\ disk[n].map["k1"] = StoredValue)

\* C15 as claimed: once all of two or more calls have resolved, each made
\* after loadState was over and none with a rejected write, every file
\* holds the map as it is in memory.
C15_Serialized ==
    (/\ Len(calls) >= 2
     /\ \A i \in 1..Len(calls) :
           Resolved(calls[i]) /\ calls[i].loaded /\ calls[i].failedAt = 0)
        => \A n \in NsSet : disk[n] = Stringify(mem[n])

RECURSIVE ConcatTexts(_)
ConcatTexts(cs) == IF cs = <<>> THEN <<>> ELSE Head(cs).text \o ConcatTexts(Tail(cs))

\* The record of the running turn is the first of the history file.
TurnRecorded ==
    /\ historyItem # NoItem
    /\ historyFile.kind = "array"
    /\ historyFile.items # <<>>
    /\ historyFile.items[1] = historyItem

\* C12 as claimed, for the history file: when the file does not hold a list
\* of records (missing, not parsable, or JSON of another shape) the read
\* yields the empty list.
C12_ReadsDefault ==
    (tpc = "store" /\ historyFile.kind # "array") => history = EmptyHistory

\* C17: while executeTask consumes the sequence, the chunks relayed are the
\* chunks yielded, in order, all of them but the one the generator is
\* suspended on; and the response is the concatenation of the texts of the
\* chunks relayed, Error chunks included.
C17_RelayInOrder ==
    Streaming =>
        /\ Len(relayed) = Len(out) - (IF pc \in {"yield", "last"} THEN 1 ELSE 0)
        /\ relayed = SubSeq(out, 1, Len(relayed))
        /\ response = ConcatTexts(relayed)

\* A Text chunk and then an Error chunk were relayed and the sequence ended.
C17_Witness ==
    /\ Streaming
    /\ pc = "done"
    /\ Len(relayed) = 2
    /\ IsText(relayed[1])
    /\ IsError(relayed[2])
    /\ response = relayed[1].text \o relayed[2].text

\* C18 as claimed: the record stored for the turn holds the task text and
\* the accumulated response text.
C18_RecordHoldsResponse ==
    (tpc = "emit" /\ TurnRecorded) =>
        /\ historyFile.items[1].task = task
        /\ "response" \in DOMAIN historyFile.items[1]
        /\ historyFile.items[1].response = response

\* C19: 'completed' is emitted once for each save attempted and only after
\* it: the count of events is the count of records built, less the one whose
\* event is still to come; an event is emitted only by the step that follows
\* saveToHistory; and saveToHistory is entered only when the generator is
\* done and every chunk it yielded has been relayed.
C19_CompletedOnce ==
    /\ [](completed = Len(log) - StoredBefore - (IF tpc = "emit" THEN 1 ELSE 0))
    /\ [][completed' # completed
            => (/\ completed' = completed + 1
                /\ tpc = "emit"
                /\ log # <<>>
                /\ log[1] = historyItem)]_vars
    /\ [][(tpc = "stream" /\ tpc' = "item") => (pc = "done" /\ relayed = out)]_vars

\* The history write of a turn failed with a warning, and 'completed' was
\* emitted once, after it.
C19_Witness ==
    /\ tpc = "idle"
    /\ turns = 1
    /\ completed = 1
    /\ warnings = 1
    /\ result = "resolved"
    /\ historyFile.kind # "array"
    /\ Len(log) = 1

\* C20 as claimed: when executeTask rejects, whatever threw, no record of
\* that turn has been written.
C20_Original ==
    [][rejected' = rejected + 1 => (result' = "rejected" /\ ~TurnRecorded)]_vars

\* C20: executeTask rejects either out of the loop, before saveToHistory,
\* and then no record of the turn was built or written, or out of
\* emit('completed'), after saveToHistory has run; in both cases the
\* catch rethrows and writes nothing.  A turn past saveToHistory resolves
\* unless emit throws.
C20_RejectPaths ==
    /\ [](tpc = "stream" => (historyItem = NoItem /\ Len(log) = StoredBefore + completed))
    /\ [][rejected' = rejected + 1
            => (/\ result' = "rejected"
                /\ tpc' = "idle"
                /\ historyFile' = historyFile
                /\ log' = log
                /\ \/ tpc = "stream" /\ completed' = completed
                   \/ tpc = "emit" /\ completed' = completed + 1 /\ log[1] = historyItem)]_vars
    /\ [][(tpc = "emit" /\ rejected' = rejected) => result' = "resolved"]_vars

\* A listener of 'completed' threw: the call rejected and the record of the
\* turn is in the history file.
C20_Witness ==
    /\ tpc = "idle"
    /\ result = "rejected"
    /\ rejected = 1
    /\ completed = 1
    /\ historyFile.kind = "array"
    /\ Len(historyFile.items) = 1
    /\ historyFile.items[1].task \in Tasks


(***************************************************************************)
(* One request, one read at a time                                          *)
(***************************************************************************)
\* C22: a createMessage call on a network decoder has issued one fetch once
\* it has started and none before; a read is outstanding only when every
\* line of the earlier reads has been processed and every chunk yielded has
\* been relayed by executeTask; bytes are delivered only to an outstanding
\* read; and the generator goes from a yield to its next read only when the
\* consumer pulls.
C22_OneRead ==
    /\ [](requests <= 1)
    /\ []((Streaming /\ handler \in NetworkHandlers)
             => (requests = 1 <=> pc # "start"))
    /\ []((Streaming /\ pc = "read") => (lines = <<>> /\ relayed = out))
    /\ [][(tpc' = "stream" /\ pos' # pos)
            => (pc = "read" /\ pos' > pos /\ requests' = requests)]_vars
    /\ [][(tpc' = "stream" /\ pc \in {"yield", "last"} /\ pc' # pc)
            => relayed' = out]_vars

\* A second read is outstanding after the chunk of the first was relayed.
C22_Witness ==
    /\ Streaming
    /\ pc = "read"
    /\ requests = 1
    /\ Len(relayed) = 1
    /\ pos > 0
    /\ pos < Len(body)


(***************************************************************************)
(* Identifiers of the history records                                       *)
(***************************************************************************)
\* C23 as claimed: no two records of the history file have the same id,
\* turns that end within one tick of the clock included.
C23_UniqueIds ==
    historyFile.kind = "array" =>
        \A i, j \in 1..Len(historyFile.items) :
            i # j => historyFile.items[i].id # historyFile.items[j].id


(***************************************************************************)
(* The buffer between reads                                                 *)
(***************************************************************************)
\* The lines ls as text: each followed by its newline.
RECURSIVE JoinNL(_)
JoinNL(ls) == IF ls = <<>> THEN <<>> ELSE Head(ls) \o <<"NL">> \o JoinNL(Tail(ls))

NoNewline(t) == \A i \in 1..Len(t) : t[i] # "NL"

\* The text TextDecoder has given out for the bytes delivered so far.
TextReceived == Utf8Decode(<<>>, Delivered, <<>>).text

\* C26: the buffer and the lines handed to the for loop hold no newline;
\* the buffer is the end of the text received so far, from just after its
\* last newline; and a read is taken with no line left over, and hands on
\* exactly the old buffer followed by the text of the bytes just read: the
\* new lines with their newlines, then the new buffer.
C26_BufferExact ==
    /\ [](NoNewline(buffer) /\ \A i \in 1..Len(lines) : NoNewline(lines[i]))
    /\ [](LET n == Len(TextReceived) - Len(buffer) IN
            /\ n >= 0
            /\ buffer = SubSeq(TextReceived, n + 1, Len(TextReceived))
            /\ (n > 0 => TextReceived[n] = "NL"))
    /\ [][pos' # pos =>
            LET dec == Utf8Decode(pending, SubSeq(body, pos + 1, pos'), <<>>) IN
                /\ lines = <<>>
                /\ pending' = dec.pending
                /\ JoinNL(lines') \o buffer' = buffer \o dec.text]_vars

\* A read has just completed two lines and left the start of a third in
\* the buffer.
C26_Witness ==
    /\ pc = "loop"
    /\ Len(lines) = 2
    /\ buffer # <<>>
    /\ Len(out) = 0
    /\ pos < Len(body)


(***************************************************************************)
(* Termination of a chunk sequence                                          *)
(***************************************************************************)
\* Bodies for the runs to the end: two text frames and no sentinel; a text
\* frame, the sentinel and a frame after it; a frame cut before its
\* newline; a frame with a two-byte character; and the empty body.
LiveBodies(h) ==
    LET t == IF h = "OllamaSimpleHandler" THEN <<"MO", "Hel", "C">>
             ELSE <<"P", OpenOf(h), "Hel", "C">>
        u == IF h = "OllamaSimpleHandler" THEN <<"MO", "U1", "U2", "C">>
             ELSE <<"P", OpenOf(h), "U1", "U2", "C">>
        e == IF h = "OllamaSimpleHandler" THEN <<"MO", "lo", "CD">> ELSE <<"P", "DONE">>
        nl == <<"NL">>
    IN  {t \o nl \o t \o nl,
         t \o nl \o e \o nl \o t \o nl,
         t \o nl \o t,
         u \o nl,
         <<>>}

LiveFetchOk == FetchOkFrom(LiveBodies(handler)) /\ UNCHANGED <<tvars, xvars>>

NextLive ==
    \/ Build
    \/ MockYield
    \/ LiveFetchOk
    \/ FetchStatus
    \/ FetchNoBody
    \/ FetchReject
    \/ ReadValue
    \/ ReadDone
    \/ ReadReject
    \/ ProcessLine
    \/ Resume

\* The steps that go on when nothing fails.
Progress ==
    \/ Build
    \/ MockYield
    \/ LiveFetchOk
    \/ ReadValue
    \/ ReadDone
    \/ ProcessLine
    \/ Resume

\* The decoders with a source and a consumer that go on: fetch settles, every
\* reader.read() settles (the body is finite, a read delivers at least one
\* byte or gives done at the end of the body), the generator runs on when it
\* can, and the consumer pulls again after each chunk.  A failure of fetch
\* or of a read may happen at any time and is never forced.
SpecLive == InitDecode /\ [][NextLive]_vars /\ WF_vars(Progress)

\* C27: every sequence of a network decoder ends; it ends only on a read
\* that gives done with the whole body delivered, on the line of an end
\* sentinel, or after an Error chunk; and the read that gives done at the
\* end of a body, every line of which was processed without meeting a
\* sentinel, ends the sequence with no Error chunk in it.
C27_Terminates ==
    /\ <>(pc = "done")
    /\ [][(handler \in NetworkHandlers /\ pc # "done" /\ pc' = "done") =>
            \/ pc = "read" /\ pos = Len(body) /\ out' = out
            \/ /\ pc \in {"loop", "yield"}
               /\ IsEndSentinel(handler, Head(lines))
               /\ Consumed + 1 = FirstSentinel(handler, Frames)
            \/ pc = "last" /\ IsError(out[Len(out)])]_vars
    /\ [][(pc = "read" /\ pc' = "done")
            => (/\ pos = Len(body)
                /\ Consumed = Len(Frames)
                /\ out' = out
                /\ ErrorCount(out') = 0
                /\ ~netError')]_vars

\* A body of two text frames and no sentinel was read to its end: the
\* sequence ended with its two chunks and no Error chunk.
C27_Witness ==
    /\ pc = "done"
    /\ handler \in NetworkHandlers
    /\ status = OkStatus
    /\ FirstSentinel(handler, Frames) = 0
    /\ pos = Len(body)
    /\ Len(out) = 2
    /\ ErrorCount(out) = 0


(***************************************************************************)
(* The store right after construction                                       *)
(***************************************************************************)
\* C29 as claimed, for dispose: whenever dispose is called, before or after
\* loadState is over, the keys stored on disk stay there.
C29_StoredKept ==
    (\A i \in 1..Len(calls) : calls[i].op = "dispose")
        => \A n \in {"workspace", "secrets"} : disk[n] = StoredFile


(***************************************************************************)
(* The configuration                                                        *)
(***************************************************************************)
\* The configuration came from the command line or from the config command:
\* its credential is the apiKey field.
FromCliOrConfigCommand ==
    /\ apiConfig.kind = "object"
    /\ Truthy(apiConfig.cfg.apiKey)
    /\ apiConfig.cfg.openAiNativeApiKey = Unset

\* C24 as claimed: for anthropic, openai-native and siliconflow the request
\* carries the apiKey of the configuration in the provider's auth header,
\* and getModel gives the configured model id, or the provider's default
\* when none is configured.
C24_CredentialBound ==
    (/\ cfgPc = "sent"
     /\ FromCliOrConfigCommand
     /\ apiConfig.cfg.apiProvider \in {"anthropic", "openai-native", "siliconflow"})
    => /\ headers = IF apiConfig.cfg.apiProvider = "anthropic"
                    THEN [name |-> "x-api-key", value |-> <<apiConfig.cfg.apiKey>>]
                    ELSE [name |-> "Authorization",
                          value |-> <<"Bearer ", apiConfig.cfg.apiKey>>]
       /\ getModel = IF Truthy(apiConfig.cfg.apiModelId) THEN apiConfig.cfg.apiModelId
                     ELSE getDefaultModel(apiConfig.cfg.apiProvider)

\* The sources that yield a configuration.
CliYields == Truthy(options.apiKey) /\ Truthy(options.provider)
FileYields == Truthy(options.config) /\ configFile.kind = "object"
StoredYields == storedConfig.kind = "object"

\* C25 as claimed: the command line is used over the config file and the
\* stored configuration, the config file over the stored configuration, the
\* stored configuration when neither of the others yields one, and the turn
\* is skipped for the prompt exactly when no source yields one.
C25_Priority ==
    cfgPc \in {"ready", "prompt"} =>
        /\ apiConfig =
              IF CliYields
              THEN Obj(Cfg(options.provider, options.apiKey, options.model, Unset))
              ELSE IF FileYields THEN configFile
              ELSE IF StoredYields THEN storedConfig
              ELSE Null
        /\ (cfgPc = "prompt" <=> ~(CliYields \/ FileYields \/ StoredYields))


(***************************************************************************)
(* The interactive chat                                                     *)
(***************************************************************************)
\* C21: sendMessage is never called while a call has not settled; the flag
\* is up in every state in which a turn is outstanding; and a line that is
\* not an exit command and comes in while a turn is outstanding gets the
\* wait message and changes nothing of the controller or of the generator.
C21_OneTurnInFlight ==
    /\ [](~overlap)
    /\ []((Alive /\ tpc # "idle") => isWaitingForResponse)
    /\ [][(linesIn' = linesIn + 1 /\ tpc # "idle")
            => (/\ waitMsgs' = waitMsgs + 1
                /\ UNCHANGED <<dvars, tvars>>)]_vars
    /\ [][(tpc = "idle" /\ tpc' # "idle")
            => (linesIn' = linesIn + 1 /\ ~isWaitingForResponse /\ waitMsgs' = waitMsgs)]_vars

\* A line came in while the turn had relayed one chunk and was refused.
C21_Witness ==
    /\ chatPc = "on"
    /\ tpc = "stream"
    /\ Len(relayed) = 1
    /\ waitMsgs = 1
    /\ linesIn = 2
    /\ isWaitingForResponse

\* C28: while the process lives the flag is up exactly while a turn is
\* outstanding; once up it comes down again, with the prompt shown, unless
\* the process exits first; and it comes down only by the 'completed'
\* event of the turn or by the rejection of executeTask.
C28_BackToInput ==
    /\ [](Alive => (isWaitingForResponse <=> tpc # "idle"))
    /\ (isWaitingForResponse
          ~> ((~isWaitingForResponse /\ promptShown) \/ chatPc = "closed"))
    /\ [][(isWaitingForResponse /\ ~isWaitingForResponse')
            => (/\ promptShown'
                /\ tpc' = "idle"
                /\ \/ completed' = completed + 1 /\ result' = "resolved"
                   \/ rejected' = rejected + 1 /\ result' = "rejected")]_vars

\* executeTask rejected in the turn of the first line; the flag is down and
\* the prompt is shown.
C28_Witness ==
    /\ chatPc = "on"
    /\ linesIn = 1
    /\ rejected = 1
    /\ result = "rejected"
    /\ tpc = "idle"
    /\ ~isWaitingForResponse
    /\ promptShown

====
